---- MODULE Spec2Model ----
(***************************************************************************)
(* Model of esky's Esky class (src/esky/__init__.py): the directory lock   *)
(* of the application directory (lock/unlock), and the install/uninstall   *)
(* protocol with its bootstrap-manifest reconciliation.                    *)
(*                                                                         *)
(* SpecLock models lock()/unlock() at the granularity of one filesystem    *)
(* call per step, for several owners (host-pid-thread identities), each    *)
(* with its own Esky instance, a wall clock and crashes; locked/ may hold   *)
(* the marker of a process that died earlier.                              *)
(*                                                                         *)
(* SpecInstall models install_version/uninstall_version of one Esky as     *)
(* whole calls on the application directory; SpecReconcile applies         *)
(* uninstall_version once to application directories drawn from a bounded  *)
(* set of manifests.  The transaction engine (esky.fstransact) and the     *)
(* naming helpers (esky.util) are modelled from their specification.       *)
(***************************************************************************)
EXTENDS Integers, FiniteSets, Sequences, TLC

(* ---------------- bounds of the model ---------------- *)
MaxTicks == 2
MaxCrashes == 1
MaxDepth == 2
MaxUnderflow == 2
MaxOps == 3
MaxLines == 2
MaxSegs == 3
MaxCalls == 2
MaxPairCalls == 1

(* ---------------- program constants ---------------- *)
lock_timeout == 3600
MaxRetries == 5

\* owner identities "%s-%s-%s" % (hostname, pid, threadid) of running callers
Owners == {"p1", "p2"}
\* identity of a process that died before the behaviour starts
Orphan == "dead"
Ids == Owners \cup {Orphan}
NoFile == -1
TickSteps == {1, lock_timeout}

VARIABLES
  now,          \* time.time()
  ticks,        \* number of clock advances so far
  crashes,      \* number of crashed owners so far
  dirExists,    \* os.path.exists(appdir/locked)
  dirMtime,     \* mtime of appdir/locked
  markers,      \* markers[o]: mtime of appdir/locked/<o>, or NoFile
  pc,           \* pc[o]: position of owner o inside lock()/unlock()
  num_retries,  \* num_retries[o]: argument of the running lock() call
  lock_count,   \* lock_count[o]: self._lock_count of o's Esky
  newest_mtime, \* newest_mtime[o]: local of lock()
  names,        \* names[o]: directory listing still to be visited
  result,       \* result[o]: outcome of o's last finished call
  held,         \* history: successful lock() minus unlock() calls of o
  expired,      \* history: o's marker was removed after it had gone stale
  ctx,          \* history: what o's lock() call found at entry, "none" once
                \* another owner has stepped since the call began
  broke,        \* history: "no" until an rmtree removes part of locked/,
                \* "fresh" once it removed a marker that was not stale
  overReleased  \* history: o called unlock() more often than lock() succeeded

lockVars == <<now, ticks, crashes, dirExists, dirMtime, markers, pc,
              num_retries, lock_count, newest_mtime, names, result, held,
              expired, ctx, broke, overReleased>>

(* ---------------- the application directory ---------------- *)
VARIABLES
  win32,        \* sys.platform == "win32"
  vd,           \* vd[d]: the version directory appdir/d (see NoDir)
  mlines,       \* mlines[d]: lines of d's esky-bootstrap.txt, as packaged
  root,         \* root[f]: version whose copy of f lies in appdir, or Absent
  history       \* history: finished install/uninstall calls, oldest first

installVars == <<win32, vd, mlines, root, history>>

(* ---------------- the Esky object and the rest of appdir ---------------- *)
VARIABLES
  active_version, \* self.active_version, "none" for None
  others,         \* entries of appdir that are neither version directories
                  \* nor bootstrap files
  mf_lines,       \* lines of an esky-bootstrap.txt, each a path split at "/"
  mf_loaded       \* what _version_manifest made of mf_lines

(* ---------------- a call of auto_update ---------------- *)
VARIABLES
  upc,            \* position inside auto_update
  step,           \* position inside _do_auto_update
  trace,          \* the operations auto_update has run, oldest first
  sudo_proxy,     \* self.sudo_proxy is not None
  got_root,       \* local of auto_update
  is_root,        \* esky.sudo.has_root() of the calling process
  uout            \* how auto_update ended

updVars == <<upc, step, trace, sudo_proxy, got_root, is_root, uout>>

extraVars == <<active_version, others, mf_lines, mf_loaded, updVars>>

vars == <<lockVars, installVars, extraVars>>

\* self.name and self.platform of the Esky
name == "app"
platform == "linux"

\* bootstrap files that manifests may list
Files == {"lib.so", "app.bin", "app.bin.new", "boot.exe"}
Absent == "absent"

VersionStrings == {"0.9", "1.0", "1.1"}

\* esky.util.join_app_version
join_app_version(n, v, p) == n \o "-" \o v \o "." \o p

\* a version directory of another application in the same directory
Foreign == join_app_version("other", "2.0", platform)

Vdirs == {join_app_version(name, v, platform) : v \in VersionStrings}
           \cup {Foreign}

\* esky.util.split_app_version: the inverse of join_app_version
SplitTable ==
  [s \in Vdirs |->
     CHOOSE t \in {"app", "other"} \X (VersionStrings \cup {"2.0"})
                                   \X {platform} :
       join_app_version(t[1], t[2], t[3]) = s]

split_app_version(s) == SplitTable[s]

\* the directory name of each version of this application
TargetOf == [v \in VersionStrings |-> join_app_version(name, v, platform)]

\* esky.util.parse_version: dotted numeric components as a tuple
parse_version(v) ==
  CASE v = "0.9" -> <<0, 9>>
    [] v = "1.0" -> <<1, 0>>
    [] v = "1.1" -> <<1, 1>>
    [] v = "2.0" -> <<2, 0>>

\* the comparison with its arguments swapped
VersionLess_swapped(a, b) == b[1] < a[1] \/ (b[1] = a[1] /\ b[2] < a[2])

\* tuple comparison, parse_version(a) < parse_version(b)
VersionLess(a, b) == a[1] < b[1] \/ (a[1] = b[1] /\ a[2] < b[2])

Range(f) == {f[i] : i \in DOMAIN f}

\* a directory that does not exist
NoDir == [exists |-> FALSE,    \* appdir/d is a directory
          bsdir |-> FALSE,     \* d/esky-bootstrap/ exists
          bsfiles |-> {},      \* files inside d/esky-bootstrap/
          mfile |-> "none",    \* "txt": esky-bootstrap.txt, "old": renamed
          ovrdir |-> FALSE,    \* d/esky-overwrite/ exists
          ovrfiles |-> {},     \* files inside d/esky-overwrite/
          staged |-> FALSE]    \* unpacked under updates/ by the finder

\* the version directory as the version finder unpacks it (lines 112-115)
Payload(d) == [NoDir EXCEPT !.exists = TRUE, !.bsdir = TRUE,
                            !.bsfiles = Range(mlines[d]), !.mfile = "txt"]

\* a fully installed version directory
Installed == [NoDir EXCEPT !.exists = TRUE, !.mfile = "txt"]

\* manifests of the packaged versions
ScenarioManifests ==
  [d \in Vdirs |->
     CASE d = join_app_version(name, "0.9", platform) -> <<"lib.so", "boot.exe">>
       [] d = join_app_version(name, "1.0", platform) -> <<"lib.so", "app.bin">>
       [] d = join_app_version(name, "1.1", platform) ->
            <<"lib.so", "app.bin", "app.bin.new">>
       [] OTHER -> <<"lib.so">>]

\* the version the Esky was started from
BaseDir == join_app_version(name, "0.9", platform)

(* ---------------- helpers ---------------- *)
Max(a, b) == IF a > b THEN a ELSE b

\* os.listdir(lockdir)
ListDir == {o \in Ids : markers[o] # NoFile}

\* lines 289: newest_mtime + self.lock_timeout < time.time()
IsStale(newest, t) == newest + lock_timeout < t

\* newest timestamp found in locked/ right now (directory and markers)
RECURSIVE MaxMtime(_, _)
MaxMtime(S, acc) ==
  IF S = {} THEN acc
  ELSE LET o == CHOOSE x \in S : TRUE
       IN MaxMtime(S \ {o}, Max(acc, markers[o]))

NewestNow == MaxMtime(ListDir, dirMtime)

Live(o) == o \in Owners /\ pc[o] # "crashed"

\* what a lock() call finds when it is entered
Classify(o) ==
  IF markers[o] # NoFile THEN "own"
  ELSE IF ~dirExists THEN "free"
  ELSE IF IsStale(NewestNow, now)
       THEN IF ListDir # {} /\ \A b \in ListDir : ~Live(b)
            THEN "stalecrash" ELSE "stale"
       ELSE IF \E b \in ListDir : ~IsStale(markers[b], now)
            THEN "fresh" ELSE "busy"

InitLock ==
  /\ now = 0 /\ ticks = 0 /\ crashes = 0
  /\ \E orphaned \in BOOLEAN :
       /\ dirExists = orphaned
       /\ markers = [o \in Ids |->
                       IF o = Orphan /\ orphaned THEN 0 ELSE NoFile]
  /\ dirMtime = 0
  /\ pc = [o \in Owners |-> "idle"]
  /\ num_retries = [o \in Owners |-> 0]
  /\ lock_count = [o \in Owners |-> 0]
  /\ newest_mtime = [o \in Owners |-> 0]
  /\ names = [o \in Owners |-> {}]
  /\ result = [o \in Owners |-> "none"]
  /\ held = [o \in Owners |-> 0]
  /\ expired = [o \in Owners |-> FALSE]
  /\ ctx = [o \in Owners |-> "none"]
  /\ broke = "no"
  /\ overReleased = [o \in Owners |-> FALSE]

\* an application directory with version 0.9 installed
InitDir ==
  /\ mlines = ScenarioManifests
  /\ vd = [d \in Vdirs |-> IF d = BaseDir THEN Installed ELSE NoDir]
  /\ root = [f \in Files |->
              IF f \in Range(ScenarioManifests[BaseDir]) THEN BaseDir
                                                         ELSE Absent]
  /\ history = <<>>

\* no manifest has been read yet
NotLoaded == [out |-> "not loaded", manifest |-> {}]
\* auto_update has not been called; lines 205-206
InitUpdate ==
  /\ upc = "idle" /\ step = "none" /\ trace = <<>>
  /\ sudo_proxy = FALSE /\ got_root = FALSE /\ uout = "none"

InitIdle ==
  /\ mf_lines = <<>> /\ mf_loaded = NotLoaded
  /\ InitUpdate /\ is_root = FALSE

\* the Esky of the running version 0.9; appdir holds updates/
InitExtra == active_version = "0.9" /\ others = {"updates"} /\ InitIdle

Init == InitLock /\ win32 = FALSE /\ InitDir /\ InitExtra

InitInstall == InitLock /\ win32 \in BOOLEAN /\ InitDir /\ InitExtra

ExtraSame == UNCHANGED extraVars

InstSame == UNCHANGED <<installVars, extraVars>>

(* ---------------- frame conditions ---------------- *)
\* every step of owner o ends the undisturbed run of every other owner
Disturbed(c) ==
  IF c \in {"stalecrash", "stalecrash_disturbed"}
  THEN "stalecrash_disturbed" ELSE "none"

Interfere(o) ==
  ctx' = [b \in Owners |-> IF b = o THEN ctx[b] ELSE Disturbed(ctx[b])]

ClockSame == UNCHANGED <<now, ticks, crashes>>
FsSame == UNCHANGED <<dirExists, dirMtime, markers>>
HistSame == UNCHANGED <<held, expired, broke, overReleased>>

\* the call of o finishes with outcome res; locals are dropped
Finish(o, res) ==
  /\ pc' = [pc EXCEPT ![o] = "idle"]
  /\ result' = [result EXCEPT ![o] = res]
  /\ newest_mtime' = [newest_mtime EXCEPT ![o] = 0]
  /\ names' = [names EXCEPT ![o] = {}]

\* line 291/297: return self.lock(num_retries+1)
Retry(o) ==
  /\ pc' = [pc EXCEPT ![o] = "lock_check"]
  /\ num_retries' = [num_retries EXCEPT ![o] = @ + 1]
  /\ newest_mtime' = [newest_mtime EXCEPT ![o] = 0]
  /\ names' = [names EXCEPT ![o] = {}]
  /\ UNCHANGED <<result, lock_count>>

Goto(o, l) ==
  /\ pc' = [pc EXCEPT ![o] = l]
  /\ UNCHANGED <<result, num_retries, lock_count>>

\* history kept on a successful lock(): one more unmatched acquisition
FinishOk(o) ==
  /\ Finish(o, "ok")
  /\ held' = [held EXCEPT ![o] = @ + 1]
  /\ expired' = [expired EXCEPT ![o] = FALSE]

(* ---------------- Esky.lock, lines 244-302 ---------------- *)
\* a caller enters lock(num_retries=0)
lock_start(o) ==
  /\ pc[o] = "idle"
  /\ lock_count[o] < MaxDepth /\ held[o] < MaxDepth
  /\ pc' = [pc EXCEPT ![o] = "lock_check"]
  /\ num_retries' = [num_retries EXCEPT ![o] = 0]
  /\ result' = [result EXCEPT ![o] = "none"]
  /\ ctx' = [b \in Owners |->
                 IF b = o THEN Classify(o) ELSE Disturbed(ctx[b])]
  /\ ClockSame /\ InstSame /\ FsSame
  /\ UNCHANGED <<lock_count, newest_mtime, names, held, expired, broke,
                 overReleased>>

\* lock_check without the cap on num_retries
lock_check_uncapped(o) ==
  /\ pc[o] = "lock_check"
  /\ Goto(o, IF markers[o] # NoFile THEN "lock_utime" ELSE "lock_mkdir")
  /\ UNCHANGED <<newest_mtime, names>>
  /\ Interfere(o) /\ ClockSame /\ InstSame /\ FsSame /\ HistSame

\* lines 258-271: retry cap, then "do I already own the lock?"
lock_check(o) ==
  /\ pc[o] = "lock_check"
  /\ IF num_retries[o] > MaxRetries
     THEN Finish(o, "EskyLockedError") /\ UNCHANGED <<num_retries, lock_count>>
     ELSE /\ Goto(o, IF markers[o] # NoFile THEN "lock_utime" ELSE "lock_mkdir")
          /\ UNCHANGED <<newest_mtime, names>>
  /\ Interfere(o) /\ ClockSame /\ InstSame /\ FsSame /\ HistSame

\* lock_utime that forgets self._lock_count += 1
lock_utime_uncounted(o) ==
  /\ pc[o] = "lock_utime"
  /\ IF markers[o] # NoFile
     THEN /\ markers' = [markers EXCEPT ![o] = now]
          /\ FinishOk(o)
          /\ UNCHANGED lock_count
     ELSE /\ Finish(o, "OSError")
          /\ UNCHANGED <<markers, lock_count, held, expired>>
  /\ Interfere(o) /\ ClockSame /\ InstSame
  /\ UNCHANGED <<dirExists, dirMtime, num_retries, broke, overReleased>>

\* lines 273-275: os.utime on the own marker, count it, return True
lock_utime(o) ==
  /\ pc[o] = "lock_utime"
  /\ IF markers[o] # NoFile
     THEN /\ markers' = [markers EXCEPT ![o] = now]
          /\ lock_count' = [lock_count EXCEPT ![o] = @ + 1]
          /\ FinishOk(o)
     ELSE /\ Finish(o, "OSError")
          /\ UNCHANGED <<markers, lock_count, held, expired>>
  /\ Interfere(o) /\ ClockSame /\ InstSame
  /\ UNCHANGED <<dirExists, dirMtime, num_retries, broke, overReleased>>

\* lines 277-281: os.mkdir(lockdir), EEXIST leads to the staleness test
lock_mkdir(o) ==
  /\ pc[o] = "lock_mkdir"
  /\ IF ~dirExists
     THEN /\ dirExists' = TRUE /\ dirMtime' = now
          /\ Goto(o, "lock_record")
     ELSE /\ Goto(o, "lock_getmtime")
          /\ UNCHANGED <<dirExists, dirMtime>>
  /\ Interfere(o) /\ ClockSame /\ InstSame /\ HistSame
  /\ UNCHANGED <<markers, newest_mtime, names>>

\* line 284: newest_mtime = os.path.getmtime(lockdir)
lock_getmtime(o) ==
  /\ pc[o] = "lock_getmtime"
  /\ IF dirExists
     THEN /\ newest_mtime' = [newest_mtime EXCEPT ![o] = dirMtime]
          /\ Goto(o, "lock_listdir")
          /\ UNCHANGED names
     ELSE Retry(o)
  /\ Interfere(o) /\ ClockSame /\ InstSame /\ FsSame /\ HistSame

\* line 285: os.listdir(lockdir)
lock_listdir(o) ==
  /\ pc[o] = "lock_listdir"
  /\ IF dirExists
     THEN /\ names' = [names EXCEPT ![o] = ListDir]
          /\ Goto(o, IF ListDir = {} THEN "lock_decide" ELSE "lock_scan")
          /\ UNCHANGED newest_mtime
     ELSE Retry(o)
  /\ Interfere(o) /\ ClockSame /\ InstSame /\ FsSame /\ HistSame

\* lines 286-288: os.path.getmtime of one listed marker
lock_scan(o) ==
  /\ pc[o] = "lock_scan"
  /\ \E nm \in names[o] :
       IF markers[nm] # NoFile
       THEN /\ newest_mtime' =
                 [newest_mtime EXCEPT ![o] = Max(@, markers[nm])]
            /\ names' = [names EXCEPT ![o] = @ \ {nm}]
            /\ Goto(o, IF names[o] = {nm} THEN "lock_decide" ELSE "lock_scan")
       ELSE Retry(o)
  /\ Interfere(o) /\ ClockSame /\ InstSame /\ FsSame /\ HistSame

\* lines 289-293: stale -> break it, otherwise EskyLockedError
lock_decide(o) ==
  /\ pc[o] = "lock_decide"
  /\ IF IsStale(newest_mtime[o], now)
     THEN Goto(o, "rmtree_listdir") /\ UNCHANGED <<newest_mtime, names>>
     ELSE Finish(o, "EskyLockedError") /\ UNCHANGED <<num_retries, lock_count>>
  /\ Interfere(o) /\ ClockSame /\ InstSame /\ FsSame /\ HistSame

\* line 290, shutil.rmtree(lockdir): os.listdir
rmtree_listdir(o) ==
  /\ pc[o] = "rmtree_listdir"
  /\ IF dirExists
     THEN /\ names' = [names EXCEPT ![o] = ListDir]
          /\ Goto(o, IF ListDir = {} THEN "rmtree_rmdir" ELSE "rmtree_unlink")
          /\ UNCHANGED newest_mtime
     ELSE Retry(o)
  /\ Interfere(o) /\ ClockSame /\ InstSame /\ FsSame /\ HistSame

\* line 290, shutil.rmtree(lockdir): os.remove of one listed marker
rmtree_unlink(o) ==
  /\ pc[o] = "rmtree_unlink"
  /\ \E nm \in names[o] :
       IF markers[nm] # NoFile
       THEN /\ markers' = [markers EXCEPT ![nm] = NoFile]
            /\ dirMtime' = now
            /\ broke' = IF broke = "fresh" \/ ~IsStale(markers[nm], now)
                         THEN "fresh" ELSE "stale"
            /\ expired' = [b \in Owners |->
                             IF b = nm THEN IsStale(markers[nm], now)
                                       ELSE expired[b]]
            /\ names' = [names EXCEPT ![o] = @ \ {nm}]
            /\ Goto(o, IF names[o] = {nm} THEN "rmtree_rmdir"
                                          ELSE "rmtree_unlink")
            /\ UNCHANGED newest_mtime
       ELSE /\ Retry(o)
            /\ UNCHANGED <<markers, dirMtime, broke, expired>>
  /\ Interfere(o) /\ ClockSame /\ InstSame
  /\ UNCHANGED <<dirExists, held, overReleased>>

\* rmtree_rmdir that raises EskyLockedError after breaking, without retrying
rmtree_rmdir_gives_up(o) ==
  /\ pc[o] = "rmtree_rmdir"
  /\ IF ~dirExists
     THEN Retry(o) /\ UNCHANGED <<dirExists, dirMtime, broke>>
     ELSE IF ListDir # {}
          THEN /\ Finish(o, "OSError")
               /\ UNCHANGED <<num_retries, lock_count, dirExists, dirMtime,
                              broke>>
          ELSE /\ dirExists' = FALSE /\ dirMtime' = 0
               /\ broke' = IF broke = "no" THEN "stale" ELSE broke
               /\ Finish(o, "EskyLockedError")
               /\ UNCHANGED <<num_retries, lock_count>>
  /\ Interfere(o) /\ ClockSame /\ InstSame
  /\ UNCHANGED <<markers, held, expired, overReleased>>

\* line 290, shutil.rmtree(lockdir): os.rmdir; line 291: retry
rmtree_rmdir(o) ==
  /\ pc[o] = "rmtree_rmdir"
  /\ IF ~dirExists
     THEN Retry(o) /\ UNCHANGED <<dirExists, dirMtime, broke>>
     ELSE IF ListDir # {}
          THEN /\ Finish(o, "OSError")
               /\ UNCHANGED <<num_retries, lock_count, dirExists, dirMtime,
                              broke>>
          ELSE /\ dirExists' = FALSE /\ dirMtime' = 0
               /\ broke' = IF broke = "no" THEN "stale" ELSE broke
               /\ Retry(o)
  /\ Interfere(o) /\ ClockSame /\ InstSame
  /\ UNCHANGED <<markers, held, expired, overReleased>>

\* lines 299-302: create the marker, self._lock_count = 1, return True
lock_record(o) ==
  /\ pc[o] = "lock_record"
  /\ IF dirExists
     THEN /\ markers' = [markers EXCEPT ![o] = now]
          /\ dirMtime' = now
          /\ lock_count' = [lock_count EXCEPT ![o] = 1]
          /\ FinishOk(o)
     ELSE /\ Finish(o, "IOError")
          /\ UNCHANGED <<markers, dirMtime, lock_count, held, expired>>
  /\ Interfere(o) /\ ClockSame /\ InstSame
  /\ UNCHANGED <<dirExists, num_retries, broke, overReleased>>

(* ---------------- Esky.unlock, lines 304-319 ---------------- *)
\* lines 306-307: decrement, and decide whether to remove the marker
unlock_start(o) ==
  /\ pc[o] = "idle"
  /\ lock_count' = [lock_count EXCEPT ![o] = @ - 1]
  /\ IF held[o] > 0
     THEN held' = [held EXCEPT ![o] = @ - 1] /\ UNCHANGED overReleased
     ELSE overReleased' = [overReleased EXCEPT ![o] = TRUE] /\ UNCHANGED held
  /\ IF lock_count[o] - 1 = 0
     THEN /\ pc' = [pc EXCEPT ![o] = "unlock_unlink"]
          /\ result' = [result EXCEPT ![o] = "none"]
          /\ UNCHANGED <<newest_mtime, names>>
     ELSE Finish(o, "unlocked")
  /\ Interfere(o) /\ ClockSame /\ InstSame /\ FsSame
  /\ UNCHANGED <<num_retries, expired, broke>>

\* line 318: os.unlink(os.path.join(lockdir,myid))
unlock_unlink(o) ==
  /\ pc[o] = "unlock_unlink"
  /\ IF markers[o] # NoFile
     THEN /\ markers' = [markers EXCEPT ![o] = NoFile]
          /\ dirMtime' = now
          /\ Goto(o, "unlock_rmdir")
          /\ UNCHANGED <<newest_mtime, names>>
     ELSE /\ Finish(o, "unlock_OSError")
          /\ UNCHANGED <<markers, dirMtime, num_retries, lock_count>>
  /\ Interfere(o) /\ ClockSame /\ InstSame /\ HistSame
  /\ UNCHANGED dirExists

\* line 319: os.rmdir(lockdir)
unlock_rmdir(o) ==
  /\ pc[o] = "unlock_rmdir"
  /\ IF dirExists /\ ListDir = {}
     THEN /\ dirExists' = FALSE /\ dirMtime' = 0
          /\ Finish(o, "unlocked")
     ELSE /\ Finish(o, "unlock_OSError")
          /\ UNCHANGED <<dirExists, dirMtime>>
  /\ Interfere(o) /\ ClockSame /\ InstSame /\ HistSame
  /\ UNCHANGED <<markers, num_retries, lock_count>>

(* ---------------- environment ---------------- *)
\* wall-clock time passes
Tick ==
  /\ ticks < MaxTicks
  /\ \E d \in TickSteps : now' = now + d
  /\ ticks' = ticks + 1
  /\ InstSame
  /\ UNCHANGED <<crashes, dirExists, dirMtime, markers, pc, num_retries,
                 lock_count, newest_mtime, names, result, held, expired, ctx,
                 broke, overReleased>>

\* the process of owner o dies; whatever it left in locked/ stays there
Crash(o) ==
  /\ Live(o)
  /\ crashes < MaxCrashes
  /\ \/ pc[o] = "lock_record"
     \/ pc[o] = "idle" /\ markers[o] # NoFile
  /\ crashes' = crashes + 1
  /\ InstSame
  /\ pc' = [pc EXCEPT ![o] = "crashed"]
  /\ newest_mtime' = [newest_mtime EXCEPT ![o] = 0]
  /\ names' = [names EXCEPT ![o] = {}]
  /\ UNCHANGED <<now, ticks, dirExists, dirMtime, markers, num_retries,
                 lock_count, result, held, expired, ctx, broke,
                 overReleased>>

NextLock ==
  \/ \E o \in Owners : lock_start(o)
  \/ \E o \in Owners : lock_check(o)
  \/ \E o \in Owners : lock_utime(o)
  \/ \E o \in Owners : lock_mkdir(o)
  \/ \E o \in Owners : lock_getmtime(o)
  \/ \E o \in Owners : lock_listdir(o)
  \/ \E o \in Owners : lock_scan(o)
  \/ \E o \in Owners : lock_decide(o)
  \/ \E o \in Owners : rmtree_listdir(o)
  \/ \E o \in Owners : rmtree_unlink(o)
  \/ \E o \in Owners : rmtree_rmdir(o)
  \/ \E o \in Owners : lock_record(o)
  \/ \E o \in Owners : held[o] > 0 /\ unlock_start(o)
  \/ \E o \in Owners : unlock_unlink(o)
  \/ \E o \in Owners : unlock_rmdir(o)
  \/ \E o \in Owners : Crash(o)
  \/ Tick

SpecLock == Init /\ [][NextLock]_vars

\* one caller that does not pair its unlock() calls with lock() calls
Caller == "p1"

unlock_unmatched(o) ==
  /\ lock_count[o] > -MaxUnderflow
  /\ unlock_start(o)

NextMisuse ==
  \/ lock_start(Caller)
  \/ lock_check(Caller)
  \/ lock_utime(Caller)
  \/ lock_mkdir(Caller)
  \/ lock_getmtime(Caller)
  \/ lock_listdir(Caller)
  \/ lock_scan(Caller)
  \/ lock_decide(Caller)
  \/ rmtree_listdir(Caller)
  \/ rmtree_unlink(Caller)
  \/ rmtree_rmdir(Caller)
  \/ lock_record(Caller)
  \/ unlock_unmatched(Caller)
  \/ unlock_unlink(Caller)
  \/ unlock_rmdir(Caller)
  \/ Tick

SpecMisuse == Init /\ [][NextMisuse]_vars

(* ======================= claims about the lock ======================= *)
LockPcs == {"lock_check", "lock_utime", "lock_mkdir", "lock_getmtime",
            "lock_listdir", "lock_scan", "lock_decide", "rmtree_listdir",
            "rmtree_unlink", "rmtree_rmdir", "lock_record"}

\* o's lock() call returns or raises in this step
LockReturns(o) == pc[o] \in LockPcs /\ pc'[o] = "idle"

\* owners with a successful lock() not yet matched by unlock(), leaving out
\* dead processes and holders whose marker was removed after going stale
Holders == {o \in Owners : Live(o) /\ held[o] > 0 /\ ~expired[o]}

\* C1: at most one owner at a time has a successful lock() that is not yet
\* matched by its unlock(), in every interleaving of lock()/unlock() calls,
\* concurrent breaking of a stale lock included.
C1_MutualExclusion == Cardinality(Holders) <= 1

\* C2: without interference (nothing was ever removed by a lock breaker),
\* an owner between calls has its marker, and locked/, exactly while its
\* successful lock() calls outnumber its unlock() calls, and _lock_count is
\* that difference; when nobody holds or is inside a call, locked/ is gone.
C2_Counted ==
  broke = "no" =>
    /\ \A o \in Owners : pc[o] = "idle" =>
         /\ (markers[o] # NoFile) <=> (held[o] > 0)
         /\ held[o] > 0 => dirExists /\ lock_count[o] = held[o]
    /\ ( /\ \A o \in Owners : pc[o] = "idle" /\ held[o] = 0
         /\ markers[Orphan] = NoFile ) => ~dirExists

\* C2, second half: a lock() call entered by the owner of the marker
\* succeeds and neither removes nor recreates locked/.
C2_NoRecreate ==
  \A o \in Owners :
    (pc[o] \in LockPcs /\ pc'[o] # pc[o] /\ ctx[o] = "own") =>
      /\ dirExists' = dirExists /\ dirMtime' = dirMtime
      /\ pc'[o] = "idle" => result'[o] = "ok" /\ num_retries'[o] = 0

\* C2: the lock is reentrant and reference-counted per owner identity.
C2_Reentrant == [](C2_Counted) /\ [][C2_NoRecreate]_vars

\* C2 witness: lock, lock, unlock, unlock has just returned the directory
\* to the unlocked state (the second unlock removed marker and directory).
C2_Witness_state ==
  /\ broke = "no" /\ ~dirExists
  /\ pc["p1"] = "idle" /\ held["p1"] = 0 /\ lock_count["p1"] = 0
  /\ result["p1"] = "unlocked" /\ ctx["p1"] = "own"

\* C3: no lock() call removes the marker of a holder whose timestamp is
\* within lock_timeout of the current time.
C3_FreshNeverBroken == broke # "fresh"

\* the returning lock() call leaves its caller holding a fresh lock that
\* carries only the caller's marker
C4_Recovered(o) ==
  /\ result'[o] = "ok"
  /\ lock_count'[o] = 1
  /\ dirExists'
  /\ \A b \in Ids : (markers'[b] # NoFile) <=> (b = o)
  /\ markers'[o] = now

\* C4 as stated: every lock() call that found the stale lock of a dead
\* holder ends holding a fresh lock that carries only the caller's marker.
C4_StaleRecovered_original ==
  [][\A o \in Owners :
       (LockReturns(o) /\ ctx[o] \in {"stalecrash", "stalecrash_disturbed"})
         => C4_Recovered(o)]_vars

\* C4 amended: a lock() call that found the stale lock of a dead holder,
\* and during which no other owner takes a step, ends holding a fresh lock
\* that carries only the caller's marker, after having removed locked/ and
\* retried.
C4_StaleRecovered ==
  [][\A o \in Owners :
       (LockReturns(o) /\ ctx[o] = "stalecrash")
         => C4_Recovered(o) /\ num_retries[o] >= 1]_vars

\* C4 witness: an undisturbed call that found a dead holder's stale lock has
\* returned, and the directory holds only the caller's fresh marker.
C4_Witness_state ==
  \E o \in Owners :
    /\ pc[o] = "idle" /\ ctx[o] = "stalecrash" /\ result[o] = "ok"
    /\ num_retries[o] >= 1 /\ markers[o] = now
    /\ markers[Orphan] = NoFile

\* progress measure of a running lock() call
Stage(l) ==
  CASE l = "lock_check" -> 9
    [] l \in {"lock_utime", "lock_mkdir"} -> 8
    [] l \in {"lock_record", "lock_getmtime"} -> 7
    [] l = "lock_listdir" -> 6
    [] l = "lock_scan" -> 5
    [] l = "lock_decide" -> 4
    [] l = "rmtree_listdir" -> 3
    [] l = "rmtree_unlink" -> 2
    [] l = "rmtree_rmdir" -> 1
    [] OTHER -> 0

Rank(r, l, n) == (MaxRetries + 1 - r) * 64 + Stage(l) * 4 + Cardinality(n)

C5_Bounded == \A o \in Owners : num_retries[o] <= MaxRetries + 1

C5_Progress ==
  \A o \in Owners :
    ( /\ pc[o] \in LockPcs
      /\ <<pc[o], num_retries[o], names[o]>>
            # <<pc'[o], num_retries'[o], names'[o]>> ) =>
      /\ Rank(num_retries'[o], pc'[o], names'[o]) >= 0
      /\ Rank(num_retries'[o], pc'[o], names'[o])
           < Rank(num_retries[o], pc[o], names[o])
      /\ (LockReturns(o) /\ num_retries[o] > MaxRetries)
            => result'[o] = "EskyLockedError"

C5_FailFast ==
  \A o \in Owners :
    ( /\ LockReturns(o) /\ ctx[o] = "fresh"
      /\ \E b \in Ids \ {o} :
            markers[b] # NoFile /\ ~IsStale(markers[b], now) )
    => result'[o] = "EskyLockedError" /\ num_retries[o] = 0

\* C5: lock() never blocks: every step of a call lowers a non-negative
\* measure whatever the other owners do, the retry counter never passes
\* the cap (beyond it the call raises EskyLockedError), and a call that finds
\* another owner's fresh marker fails at once with EskyLockedError.
C5_NeverBlocks == [](C5_Bounded) /\ [][C5_Progress /\ C5_FailFast]_vars

\* C5 witness: a call has given up with EskyLockedError at the retry cap.
C5_Witness_state ==
  \E o \in Owners :
    /\ pc[o] = "idle" /\ result[o] = "EskyLockedError"
    /\ num_retries[o] = MaxRetries + 1

\* C6: unlock() with the reentrant counter at 0 is signalled as an error,
\* and the counter never becomes negative.
C6_OverReleaseIsError ==
  [][\A o \in Owners :
       (pc[o] = "idle" /\ lock_count[o] <= 0 /\ lock_count'[o] # lock_count[o])
         => lock_count'[o] >= 0 /\ result'[o] # "unlocked"]_vars

(* ================= install and uninstall ================= *)
NoFault == "none"

\* Esky._version_manifest, lines 703-722, read from directory state dirs
_version_manifest(dirs, vdir) ==
  IF dirs[vdir].exists /\ dirs[vdir].mfile = "txt"
  THEN Range(mlines[vdir])
  ELSE {}

\* os.listdir(self.appdir), the entries that name version directories; the
\* other entries fail the test on the application name at line 691
ListAppdir(dirs) == {d \in Vdirs : dirs[d].exists}

\* lines 686-695: the loop that collects to_keep
RECURSIVE to_keep_loop(_, _, _, _)
to_keep_loop(dirs, entries, version, to_keep) ==
  IF entries = {} THEN to_keep
  ELSE LET vname == CHOOSE e \in entries : TRUE
           rest == entries \ {vname}
           details == split_app_version(vname)
       IN IF vname = TargetOf[version]
          THEN to_keep_loop(dirs, rest, version, to_keep)
          ELSE IF details[1] # name
          THEN to_keep_loop(dirs, rest, version, to_keep)
          ELSE IF VersionLess(parse_version(details[2]),
                              parse_version(version))
          THEN to_keep_loop(dirs, rest, version, to_keep)
          ELSE to_keep_loop(dirs, rest, version,
                            to_keep \cup _version_manifest(dirs, vname))

\* a cleanup that does not consult the other versions
_cleanup_bootstrap_env_alone(dirs, files, version) ==
  {nm \in _version_manifest(dirs, TargetOf[version]) : files[nm] # Absent}

\* Esky._cleanup_bootstrap_env, lines 682-701: the paths handed to
\* trn.remove
_cleanup_bootstrap_env(dirs, files, version) ==
  LET target_name == TargetOf[version]
      to_keep == to_keep_loop(dirs, ListAppdir(dirs), version, {})
      to_rem == _version_manifest(dirs, target_name) \ to_keep
  IN {nm \in to_rem : files[nm] # Absent}

\* lines 616-617: the file is put aside in esky-overwrite/ instead of
\* replacing the one in appdir
PutAside(files, nm, safe) == win32 /\ files[nm] # Absent /\ nm \in safe

(* ---- FSTransaction (esky.fstransact): moves are applied when recorded, ---- *)
(* ---- removes when committed, abort moves every applied file back       ---- *)
\* trn.move of the files in moved, out of dir's esky-bootstrap/
trn_move_dir(dir, files, moved, attempted, safe) ==
  [dir EXCEPT !.bsfiles = @ \ moved,
              !.ovrfiles = @ \cup {nm \in moved : PutAside(files, nm, safe)},
              !.ovrdir = @ \/ \E nm \in attempted : PutAside(files, nm, safe)]

trn_move_root(files, target, moved, safe) ==
  [nm \in Files |->
     IF nm \in moved /\ ~PutAside(files, nm, safe) THEN target ELSE files[nm]]

\* trn.abort: the reverse moves, newest first; a file that a move had
\* replaced in appdir is not brought back
\* an abort that drops the undo information instead of moving the files back
trn_abort_dir_forgets(dir, before) == dir

trn_abort_dir(dir, before) ==
  [dir EXCEPT !.bsfiles = before.bsfiles, !.ovrfiles = before.ovrfiles]

trn_abort_root(files, before, target, moved) ==
  [nm \in Files |->
     IF nm \in moved /\ files[nm] = target /\ before[nm] # target
     THEN Absent ELSE files[nm]]

\* trn.commit of the recorded trn.remove(bootstrap)
trn_commit_dir(dir) == [dir EXCEPT !.bsdir = FALSE, !.bsfiles = {}]

\* a commit that leaves the recorded removals undone
trn_commit_root_undone(files, removed) == files

\* trn.commit of the recorded trn.remove(fullnm), line 653: the paths in
\* removed are deleted from appdir
trn_commit_root(files, removed) ==
  [nm \in Files |-> IF nm \in removed THEN Absent ELSE files[nm]]

\* the directory lock is refused to a caller that finds it held and fresh
LockFails == Classify(Caller) \in {"fresh", "busy"}

\* lock() ... unlock() around a call of Caller, without interleaving
LockedRun ==
  /\ IF markers[Caller] # NoFile
     THEN /\ markers' = [markers EXCEPT ![Caller] = now]
          /\ UNCHANGED <<dirExists, dirMtime, lock_count, broke>>
     ELSE /\ markers' = [b \in Ids |-> NoFile]
          /\ dirExists' = FALSE /\ dirMtime' = 0
          /\ lock_count' = [lock_count EXCEPT ![Caller] = 0]
          /\ broke' = IF dirExists /\ broke = "no" THEN "stale" ELSE broke
  /\ UNCHANGED <<now, ticks, crashes, pc, num_retries, newest_mtime, names,
                 result, held, expired, ctx, overReleased>>

LockRefused == UNCHANGED lockVars

Log(op, version, out, applied, recorded) ==
  history' = Append(history, [op |-> op, v |-> version, out |-> out,
                              applied |-> applied, recorded |-> recorded])

\* install_version that commits although a move failed
install_version_no_abort(version, moved, fault, safe) ==
  LET target == TargetOf[version]
      placed == IF vd[target].exists THEN vd[target] ELSE Payload(target)
      placedDirs == [vd EXCEPT ![target] = placed]
      movable == {nm \in _version_manifest(placedDirs, target) :
                    nm \in placed.bsfiles}
      attempted == IF fault = NoFault THEN moved ELSE moved \cup {fault}
      merged == trn_move_dir(placed, root, moved, attempted, safe)
  IN /\ Len(history) < MaxOps
     /\ ExtraSame
     /\ moved \subseteq movable
     /\ fault \in (movable \ moved) \cup {NoFault}
     /\ fault = NoFault => moved = movable
     /\ ~win32 => safe = {}
     /\ IF LockFails
        THEN /\ vd' = [vd EXCEPT ![target].staged = @ \/ ~vd[target].exists]
             /\ Log("install", version, "EskyLockedError", {}, {})
             /\ UNCHANGED <<root, win32, mlines>>
             /\ LockRefused
        ELSE /\ vd' = [vd EXCEPT ![target] = trn_commit_dir(merged)]
             /\ root' = trn_move_root(root, target, moved, safe)
             /\ Log("install", version,
                    IF fault = NoFault THEN "ok" ELSE "MoveError", moved, {})
             /\ UNCHANGED <<win32, mlines>>
             /\ LockedRun

\* Esky.install_version with Esky._unpack_bootstrap_env, lines 570-627.
\* moved: the files whose trn.move succeeded; fault: the file whose trn.move
\* raised, if any; safe: the files is_safe_to_overwrite accepts.
install_version(version, moved, fault, safe) ==
  LET target == TargetOf[version]
      \* lines 583-589: fetch, then rename the payload into place
      placed == IF vd[target].exists THEN vd[target] ELSE Payload(target)
      placedDirs == [vd EXCEPT ![target] = placed]
      \* lines 609-612
      movable == {nm \in _version_manifest(placedDirs, target) :
                    nm \in placed.bsfiles}
      attempted == IF fault = NoFault THEN moved ELSE moved \cup {fault}
      merged == trn_move_dir(placed, root, moved, attempted, safe)
      mergedRoot == trn_move_root(root, target, moved, safe)
  IN /\ Len(history) < MaxOps
     /\ ExtraSame
     /\ moved \subseteq movable
     /\ fault \in (movable \ moved) \cup {NoFault}
     /\ fault = NoFault => moved = movable
     /\ ~win32 => safe = {}
     /\ IF LockFails
        THEN \* line 586 raises; the payload stays under updates/
             /\ vd' = [vd EXCEPT ![target].staged = @ \/ ~vd[target].exists]
             /\ Log("install", version, "EskyLockedError", {}, {})
             /\ UNCHANGED <<root, win32, mlines>>
             /\ LockRefused
        ELSE /\ IF fault = NoFault
                THEN \* lines 596-597 and 627
                     /\ vd' = [vd EXCEPT ![target] = trn_commit_dir(merged)]
                     /\ root' = mergedRoot
                     /\ Log("install", version, "ok", moved, {})
                ELSE \* lines 593-595
                     /\ vd' = [vd EXCEPT ![target] =
                                  trn_abort_dir(merged, placed)]
                     /\ root' = trn_abort_root(mergedRoot, root, target, moved)
                     /\ Log("install", version, "MoveError", moved, {})
             /\ UNCHANGED <<win32, mlines>>
             /\ LockedRun

\* Esky.uninstall_version, lines 629-680.
\* removed: the recorded paths whose removal succeeded at commit; fault: the
\* path whose removal raised, if any; busy: another process holds the lock
\* on the version's esky-lockfile.txt (the version is in use).
uninstall_version(version, removed, fault, busy) ==
  LET target == TargetOf[version]
      recorded == _cleanup_bootstrap_env(vd, root, version)
      reclaimed == trn_commit_root(root, removed)
  IN /\ Len(history) < MaxOps
     /\ ExtraSame
     /\ IF LockFails
        THEN /\ removed = {} /\ fault = NoFault /\ ~busy
             /\ Log("uninstall", version, "EskyLockedError", {}, {})
             /\ UNCHANGED <<vd, root, win32, mlines>>
             /\ LockRefused
        ELSE IF ~vd[target].exists
        THEN \* lines 641-642
             /\ removed = {} /\ fault = NoFault /\ ~busy
             /\ Log("uninstall", version, "absent", {}, {})
             /\ UNCHANGED <<vd, root, win32, mlines>>
             /\ LockedRun
        ELSE /\ removed \subseteq recorded
             /\ fault \in (recorded \ removed) \cup {NoFault}
             /\ fault = NoFault => removed = recorded
             /\ root' = reclaimed
             /\ IF fault # NoFault
                THEN \* lines 654-655: is_locked_version_dir is not defined
                     /\ ~busy
                     /\ Log("uninstall", version, "NameError", removed,
                            recorded)
                     /\ UNCHANGED vd
                ELSE IF busy \/ (win32 /\ vd[target].mfile # "txt")
                THEN \* lines 664 and 674
                     /\ Log("uninstall", version, "VersionLockedError",
                            removed, recorded)
                     /\ UNCHANGED vd
                ELSE IF vd[target].mfile # "txt"
                THEN \* line 676: os.rename raises OSError, no such file
                     /\ Log("uninstall", version, "OSError", removed,
                            recorded)
                     /\ UNCHANGED vd
                ELSE \* lines 662 and 676
                     /\ vd' = [vd EXCEPT ![target].mfile = "old"]
                     /\ Log("uninstall", version, "ok", removed, recorded)
             /\ UNCHANGED <<win32, mlines>>
             /\ LockedRun

\* the files install_version(version) finds in esky-bootstrap/
Movable(version) ==
  LET target == TargetOf[version]
  IN IF vd[target].exists
     THEN _version_manifest(vd, target) \cap vd[target].bsfiles
     ELSE Range(mlines[target])

\* the files for which is_safe_to_overwrite is consulted
Consulted == IF win32 THEN {nm \in Files : root[nm] # Absent} ELSE {}

NextInstall ==
  \/ \E v \in VersionStrings :
       \E moved \in SUBSET Movable(v), safe \in SUBSET Consulted :
         \E fault \in (Movable(v) \ moved) \cup {NoFault} :
           install_version(v, moved, fault, safe)
  \/ \E v \in VersionStrings :
       \E removed \in SUBSET _cleanup_bootstrap_env(vd, root, v) :
         \E fault \in (_cleanup_bootstrap_env(vd, root, v) \ removed)
                        \cup {NoFault}, busy \in BOOLEAN :
           uninstall_version(v, removed, fault, busy)

SpecInstall == InitInstall /\ [][NextInstall]_vars

(* ================= claims on install ================= *)
\* the call that the step from the unprimed to the primed state finished
Finished == Len(history') = Len(history) + 1
Call == history'[Len(history')]
LastCall == history[Len(history)]

\* the contents of version's esky-bootstrap/ when the merge begins
BootstrapBefore(version) ==
  IF vd[TargetOf[version]].exists THEN vd[TargetOf[version]].bsfiles
                                  ELSE Range(mlines[TargetOf[version]])

\* the merge of version was aborted after at least one applied move
AbortedMerge(rec) ==
  rec.op = "install" /\ rec.out = "MoveError" /\ rec.applied # {}

MergedInto(dirs, files, version) ==
  LET t == TargetOf[version]
  IN /\ dirs[t].exists /\ ~dirs[t].bsdir /\ dirs[t].bsfiles = {}
     /\ \A nm \in Range(mlines[t]) :
          /\ files[nm] # Absent
          /\ files[nm] = t \/ nm \in dirs[t].ovrfiles

\* C8 (every retry): the install_version that follows an aborted merge of
\* the same version is refused only when the directory lock is held by
\* somebody else, and when it returns normally the version is installed.
C8_RetryStep ==
  (/\ Finished /\ Len(history) > 0 /\ AbortedMerge(LastCall)
   /\ Call.op = "install" /\ Call.v = LastCall.v)
    => /\ Call.out \in {"ok", "MoveError", "EskyLockedError"}
       /\ Call.out = "EskyLockedError" => LockFails
       /\ Call.out = "ok" => MergedInto(vd', root', Call.v)

\* C8 (a retry succeeds): after an aborted merge, the install_version of the
\* same version in which every move succeeds can be taken.
C8_RetryPossible ==
  (/\ Len(history) > 0 /\ Len(history) < MaxOps
   /\ AbortedMerge(LastCall) /\ ~LockFails)
    => ENABLED install_version(LastCall.v, Movable(LastCall.v), NoFault, {})

\* C8: install_version is retryable after a merge that was aborted with
\* some moves applied: the next install_version of the same version succeeds
\* and leaves it installed, without esky-bootstrap/ and with every manifest
\* file in the application directory.
C8_Retryable == [](C8_RetryPossible) /\ [][C8_RetryStep]_vars

C8_Witness_state ==
  /\ Len(history) >= 2
  /\ AbortedMerge(history[Len(history) - 1])
  /\ LastCall.op = "install" /\ LastCall.out = "ok"
  /\ LastCall.v = history[Len(history) - 1].v
  /\ MergedInto(vd, root, LastCall.v)

(* ================= manifest reconciliation ================= *)
\* the esky-bootstrap.txt files a version directory may carry
ManifestChoices ==
  {<<>>, <<"lib.so", "app.bin", "boot.exe">>, <<"lib.so", "app.bin.new">>,
   <<"app.bin">>, <<"app.bin.new", "boot.exe">>}

\* the sets of bootstrap files that may lie in the application directory
RootChoices == {Files, {"lib.so", "app.bin"}, {"boot.exe", "app.bin.new"}}

\* an application directory holding any of the version directories, each
\* installed with any of the manifests, before the first call
InitReconcile ==
  /\ InitLock /\ ~dirExists
  /\ InitExtra
  /\ win32 = FALSE
  /\ mlines \in [Vdirs -> ManifestChoices]
  /\ \E present \in SUBSET Vdirs :
       vd = [d \in Vdirs |-> IF d \in present THEN Installed ELSE NoDir]
  /\ \E here \in RootChoices :
       root = [f \in Files |-> IF f \in here THEN "unknown" ELSE Absent]
  /\ history = <<>>

\* one uninstall_version call on that directory
NextReconcile ==
  /\ Len(history) = 0
  /\ \E v \in VersionStrings :
       \E removed \in SUBSET _cleanup_bootstrap_env(vd, root, v) :
         \E fault \in (_cleanup_bootstrap_env(vd, root, v) \ removed)
                        \cup {NoFault}, busy \in BOOLEAN :
           uninstall_version(v, removed, fault, busy)

SpecReconcile == InitReconcile /\ [][NextReconcile]_vars

(* ---------------- claims on reconciliation ---------------- *)
\* the versions of this application that are at least as new as version
NotOlderThan(version) ==
  CASE version = "0.9" -> {"0.9", "1.0", "1.1"}
    [] version = "1.0" -> {"1.0", "1.1"}
    [] version = "1.1" -> {"1.1"}

\* the manifest that can be read from version's directory
ManifestOf(version) ==
  IF vd[TargetOf[version]].exists /\ vd[TargetOf[version]].mfile = "txt"
  THEN {mlines[TargetOf[version]][i] :
          i \in 1..Len(mlines[TargetOf[version]])}
  ELSE {}

\* the union of the manifests of the other versions that are not older
KeepUnion(version) ==
  UNION {ManifestOf(w) : w \in NotOlderThan(version) \ {version}}

\* the uninstall_version call of the step got as far as the reconciliation
Reconciled == Finished /\ Call.op = "uninstall"
                /\ Call.out \notin {"EskyLockedError", "absent"}

C10_KeepsProtected ==
  (Finished /\ Call.op = "uninstall")
    => \A nm \in KeepUnion(Call.v) : root'[nm] = root[nm]

\* the calls so far are install 1.0, install 1.1, uninstall 1.0, and each
\* returned normally
InstallThenRemoveOlder ==
  /\ Len(history) = 3
  /\ \A i \in 1..3 : history[i].out = "ok"
  /\ history[1].op = "install" /\ history[1].v = "1.0"
  /\ history[2].op = "install" /\ history[2].v = "1.1"
  /\ history[3].op = "uninstall" /\ history[3].v = "1.0"

\* C10 (scenario): after install 1.0, install 1.1, uninstall 1.0, lib.so and
\* app.bin lie in the application directory, and no copy of them is left in
\* the esky-bootstrap/ of either version.
C10_Scenario ==
  InstallThenRemoveOlder
    => \A nm \in {"lib.so", "app.bin"} :
         /\ root[nm] # Absent
         /\ \A v \in {"1.0", "1.1"} : nm \notin vd[TargetOf[v]].bsfiles
         /\ ~win32 => \A d \in Vdirs : nm \notin vd[d].ovrfiles

\* C10: uninstalling an older version never removes a bootstrap file that
\* an equal-or-newer installed version lists; after install 1.0, install 1.1
\* and uninstall 1.0, lib.so and app.bin are still present, once, in the
\* application directory.
C10_OlderUninstallKeepsShared ==
  [](C10_Scenario) /\ [][C10_KeepsProtected]_vars

C10_Witness_state ==
  /\ InstallThenRemoveOlder
  /\ vd[TargetOf["1.0"]].mfile = "old"
  /\ root["lib.so"] = TargetOf["1.1"] /\ root["app.bin"] = TargetOf["1.1"]
  /\ root["app.bin.new"] = TargetOf["1.1"]

\* C11: an uninstall_version that fails with VersionLockedError, because the
\* version is in use, has removed nothing: the files of the application
\* directory are the same after the call as before it.
C11_LockedUninstallRemovesNothing ==
  [][(Finished /\ Call.op = "uninstall" /\ Call.out = "VersionLockedError")
       => root' = root]_vars

\* C21: when the disable step of uninstall_version fails because the
\* version is in use, the call raises VersionLockedError, the manifest file
\* keeps its name, and the committed reclaim stays: every file the
\* transaction recorded is gone from the application directory and no other
\* file has changed.
C21_ReclaimNotRolledBack ==
  [][(Finished /\ Call.op = "uninstall" /\ Call.out = "VersionLockedError")
       => /\ vd' = vd
          /\ Call.applied = Call.recorded
          /\ \A nm \in Files :
               root'[nm] = IF nm \in Call.recorded THEN Absent
                                                   ELSE root[nm]]_vars

\* an uninstall of an installed version in use ended with VersionLockedError
\* after its reclaim removed files
C21_Witness_state ==
  /\ Len(history) > 0 /\ LastCall.op = "uninstall"
  /\ LastCall.out = "VersionLockedError"
  /\ LastCall.recorded # {}
  /\ \A nm \in LastCall.recorded : root[nm] = Absent
  /\ vd[TargetOf[LastCall.v]].mfile = "txt"

\* C13: every step of install_version and uninstall_version that changes
\* the application directory, the staging of the payload included, is taken
\* by a caller to whom the directory lock is granted.
C13_MutationUnderLock ==
  [][(vd' # vd \/ root' # root) => ~LockFails]_vars

\* the first k lines of version's manifest
ManifestPrefix(version, k) ==
  {mlines[TargetOf[version]][j] : j \in 1..k}

\* C19: the merge moves the bootstrap files in the order of the manifest
\* lines: when a move fails, the moves applied before it are those of the
\* files listed before the failing one.
C19_ManifestOrder ==
  [][(Finished /\ Call.op = "install" /\ Call.out = "MoveError")
       => \E k \in 0..Len(mlines[TargetOf[Call.v]]) :
            Call.applied = ManifestPrefix(Call.v, k)
                             \cap BootstrapBefore(Call.v)]_vars

(* ================= cleanup ================= *)
NoVersion == "none"

\* the versions of this application whose directory holds esky-bootstrap.txt
\* and, unless partial installs count, no esky-bootstrap/
Candidates(dirs, include_partial_installs) ==
  {v \in VersionStrings :
     /\ dirs[TargetOf[v]].exists /\ dirs[TargetOf[v]].mfile = "txt"
     /\ include_partial_installs \/ ~dirs[TargetOf[v]].bsdir}

\* esky.util.get_best_version: the directory of the highest version
get_best_version(dirs, include_partial_installs) ==
  LET cands == Candidates(dirs, include_partial_installs)
  IN IF cands = {} THEN NoVersion
     ELSE TargetOf[CHOOSE v \in cands :
                     \A w \in cands : ~VersionLess(parse_version(v),
                                                   parse_version(w))]

\* esky.util.is_version_dir and is_uninstalled_version_dir
is_version_dir(dirs, nm) == dirs[nm].exists /\ dirs[nm].mfile = "txt"

is_uninstalled_version_dir(dirs, nm) ==
  dirs[nm].exists /\ dirs[nm].mfile = "old"

\* a test that takes every entry but updates and locked for a backup
IsBackup_any(nm) == nm \notin {"updates", "locked"}

\* entries named like temporary backups, line 395
IsBackup(nm) == nm \in {"app.bin.old", "lib.so.old.1"}

\* the state of appdir while cleanup runs
Tree(dirs, files, out) == [dirs |-> dirs, files |-> files, out |-> out]

\* a cleanup that leaves the partial install as it is
complete_install_skipped(dirs, files, version, moved, fault, safe) ==
  Tree(dirs, files, "ok")

\* self.install_version(v) at line 359, called with the lock held, on a
\* directory that exists
complete_install(dirs, files, version, moved, fault, safe) ==
  LET target == TargetOf[version]
      attempted == IF fault = NoFault THEN moved ELSE moved \cup {fault}
      merged == trn_move_dir(dirs[target], files, moved, attempted, safe)
      mergedRoot == trn_move_root(files, target, moved, safe)
  IN IF fault = NoFault
     THEN Tree([dirs EXCEPT ![target] = trn_commit_dir(merged)],
               mergedRoot, "ok")
     ELSE Tree([dirs EXCEPT ![target] = trn_abort_dir(merged, dirs[target])],
               trn_abort_root(mergedRoot, files, target, moved), "MoveError")

\* an uninstall that does not respect the lock on the version
uninstall_inside_ignores_lock(dirs, files, version, busy) ==
  IF version \notin VersionStrings \/ ~dirs[TargetOf[version]].exists
  THEN Tree(dirs, files, "absent")
  ELSE Tree([dirs EXCEPT ![TargetOf[version]].mfile = "old"],
            trn_commit_root(files,
                            _cleanup_bootstrap_env(dirs, files, version)),
            "ok")

\* self.uninstall_version(v) at line 387, called with the lock held and
\* every removal of its transaction succeeding
uninstall_inside(dirs, files, version, busy) ==
  IF version \notin VersionStrings THEN Tree(dirs, files, "absent")
  ELSE LET target == TargetOf[version]
           recorded == _cleanup_bootstrap_env(dirs, files, version)
           reclaimed == trn_commit_root(files, recorded)
       IN IF ~dirs[target].exists THEN Tree(dirs, files, "absent")
          ELSE IF busy \/ (win32 /\ dirs[target].mfile # "txt")
          THEN Tree(dirs, reclaimed, "VersionLockedError")
          ELSE IF dirs[target].mfile # "txt"
          THEN Tree(dirs, reclaimed, "OSError")
          ELSE Tree([dirs EXCEPT ![target].mfile = "old"], reclaimed, "ok")

\* Esky._try_remove of a version directory, lines 424-460; kept: the paths
\* that are on sys.path or whose removal fails with an ignored error
_try_remove(dirs, nm, manifest, kept) ==
  IF nm \in manifest \/ nm \in kept THEN dirs
  ELSE [dirs EXCEPT ![nm] = [NoDir EXCEPT !.staged = dirs[nm].staged]]

\* lines 379-401: the loop over os.listdir(appdir), for the version
\* directories in the order the listing yields them
RECURSIVE sweep(_, _, _, _, _)
sweep(tree, order, manifest, busy, kept) ==
  IF order = <<>> \/ tree.out # "ok" THEN tree
  ELSE LET nm == Head(order)
           rest == Tail(order)
       IN IF nm \in manifest THEN sweep(tree, rest, manifest, busy, kept)
          ELSE IF is_version_dir(tree.dirs, nm)
          THEN LET un == uninstall_inside(tree.dirs, tree.files,
                                          split_app_version(nm)[2],
                                          nm \in busy)
               IN IF un.out = "VersionLockedError"
                  THEN sweep(Tree(un.dirs, un.files, "ok"), rest, manifest,
                             busy, kept)
                  ELSE IF un.out = "OSError" THEN un
                  ELSE sweep(Tree(_try_remove(un.dirs, nm, manifest, kept),
                                  un.files, "ok"),
                             rest, manifest, busy, kept)
          ELSE IF is_uninstalled_version_dir(tree.dirs, nm)
          THEN sweep(Tree(_try_remove(tree.dirs, nm, manifest, kept),
                          tree.files, "ok"),
                     rest, manifest, busy, kept)
          ELSE sweep(tree, rest, manifest, busy, kept)

\* the entries that lines 373-378 protect: the bootstrap files of the best
\* version, updates, locked, the best version's directory and the string
\* self.active_version
cleanup_manifest(dirs, best_version) ==
  _version_manifest(dirs, best_version)
    \cup {"updates", "locked", best_version}
    \cup (IF active_version # NoVersion THEN {active_version} ELSE {})

\* the directories of this application's versions
OwnDirs == {d \in Vdirs : split_app_version(d)[1] = name}

\* the record of a cleanup call; in_use: the version directories in use that
\* its sweep came to
LogCleanup(version, out, applied, in_use) ==
  history' = Append(history, [op |-> "cleanup", v |-> version, out |-> out,
                              applied |-> applied, recorded |-> {},
                              in_use |-> in_use])

\* all orderings of the elements of S
Orderings(S) ==
  {q \in [1..Cardinality(S) -> S] : \A i, j \in DOMAIN q :
                                      q[i] = q[j] => i = j}

\* the version directories other than the best one that os.listdir yields
Visited(dirs) ==
  {d \in Vdirs : dirs[d].exists} \ {get_best_version(dirs, TRUE)}

\* Esky.cleanup, lines 341-405.
\* order: the order in which os.listdir yields the version directories;
\* busy: the version directories in use; kept: the entries whose removal
\* _try_remove gives up silently; moved, fault, safe: as in install_version,
\* for the completion of a partial install.
cleanup(order, busy, kept, moved, fault, safe) ==
  /\ Len(history) < MaxOps
  /\ UNCHANGED <<win32, mlines, active_version, mf_lines, mf_loaded,
                 updVars>>
  /\ IF LockFails
     THEN /\ order = <<>> /\ busy = {} /\ kept = {}
          /\ moved = {} /\ fault = NoFault /\ safe = {}
          /\ LogCleanup(NoVersion, "EskyLockedError", {}, {})
          /\ UNCHANGED <<vd, root, others>>
          /\ LockRefused
     ELSE \E best_version0 \in {get_best_version(vd, FALSE)},
             new_version \in {get_best_version(vd, TRUE)} :
       IF new_version = NoVersion
       THEN \* line 363: os.path.join(appdir, None, ...)
            /\ order = <<>> /\ busy = {} /\ kept = {}
            /\ moved = {} /\ fault = NoFault /\ safe = {}
            /\ LogCleanup(NoVersion, "AttributeError", {}, {})
            /\ UNCHANGED <<vd, root, others>>
            /\ LockedRun
       ELSE
         LET partial == best_version0 # new_version
             v == split_app_version(new_version)[2]
             best_version == new_version
         IN
         \* lines 357-360
         \E done \in {IF partial
                      THEN complete_install(vd, root, v, moved, fault, safe)
                      ELSE Tree(vd, root, "ok")} :
         \* lines 363-369: _perform_overwrites names oversrc and overdir,
         \* which are not defined; an empty esky-overwrite/ is removed
         \E ovr \in {IF done.out # "ok" THEN done
                     ELSE IF /\ done.dirs[best_version].ovrdir
                             /\ done.dirs[best_version].ovrfiles # {}
                     THEN Tree(done.dirs, done.files, "NameError")
                     ELSE Tree([done.dirs EXCEPT
                                  ![best_version].ovrdir = FALSE],
                               done.files, "ok")} :
         \E manifest \in {cleanup_manifest(ovr.dirs, best_version)} :
         \E swept \in {sweep(ovr, order, manifest, busy, kept)} :
           /\ IF ovr.out = "ok"
              THEN \E visited \in {Visited(vd)} :
                     /\ Range(order) = visited
                     /\ Len(order) = Cardinality(visited)
                     /\ busy \subseteq visited
                     /\ kept \subseteq visited \cup others
              ELSE \* the loop of line 379 is not reached
                   order = <<>> /\ busy = {} /\ kept = {}
           /\ IF partial
              THEN \E movable \in {Movable(v)} :
                     /\ moved \subseteq movable
                     /\ fault \in (movable \ moved) \cup {NoFault}
                     /\ fault = NoFault => moved = movable
                     /\ safe \subseteq Consulted
              ELSE moved = {} /\ fault = NoFault /\ safe = {}
           /\ vd' = swept.dirs
           /\ root' = swept.files
           /\ others' = IF swept.out = "ok"
                        THEN {nm \in others : ~IsBackup(nm)
                                                \/ nm \in manifest
                                                \/ nm \in kept}
                        ELSE others
           \* in_use: the obsolete versions in use that the loop of line
           \* 379 comes to; uninstall_version raises VersionLockedError
           /\ LogCleanup(v, swept.out, IF partial THEN moved ELSE {},
                         IF ovr.out = "ok"
                         THEN (busy \cap OwnDirs) \ manifest ELSE {})
           /\ LockedRun

\* an entry of appdir that is no version directory, no backup and in no
\* manifest
Unaccounted == "uninstall.log"

\* application directories with a mix of installed, partially installed
\* and disabled versions, as earlier calls and crashes can leave them
DirStates(d) ==
  CASE d = TargetOf["0.9"] -> {NoDir, Installed, [Installed EXCEPT !.mfile = "old"]}
    [] d = TargetOf["1.0"] ->
         {NoDir, Installed, Payload(d), [Installed EXCEPT !.mfile = "old"]}
    [] d = TargetOf["1.1"] ->
         {NoDir, Installed, Payload(d),
          [Payload(d) EXCEPT !.bsfiles = @ \ {ScenarioManifests[d][1]}]}
    [] OTHER -> {NoDir, Installed}

InitCleanup ==
  /\ InitLock
  /\ win32 \in BOOLEAN
  /\ mlines = ScenarioManifests
  /\ \E d09 \in DirStates(TargetOf["0.9"]), d10 \in DirStates(TargetOf["1.0"]),
        d11 \in DirStates(TargetOf["1.1"]), df \in DirStates(Foreign) :
       vd = [d \in Vdirs |->
               CASE d = TargetOf["0.9"] -> d09
                 [] d = TargetOf["1.0"] -> d10
                 [] d = TargetOf["1.1"] -> d11
                 [] OTHER -> df]
  /\ root = [f \in Files |-> "unknown"]
  /\ history = <<>>
  /\ active_version \in {NoVersion} \cup Candidates(vd, FALSE)
  /\ others \in {{"updates", "app.bin.old"},
                 {"updates", "app.bin.old", Unaccounted}}
  /\ InitIdle

\* the files the completion of a partial install finds in esky-bootstrap/
MovableNew ==
  IF get_best_version(vd, FALSE) # get_best_version(vd, TRUE)
  THEN Movable(split_app_version(get_best_version(vd, TRUE))[2])
  ELSE {}

\* a call of cleanup with each choice of its inputs; the inputs of a part
\* that the call does not reach are left empty
CleanupCalls ==
  IF LockFails \/ get_best_version(vd, TRUE) = NoVersion
  THEN cleanup(<<>>, {}, {}, {}, NoFault, {})
  ELSE LET visited == Visited(vd)
           movable == MovableNew
       IN \E moved \in SUBSET movable,
             safe \in IF movable = {} THEN {{}} ELSE {{}, Consulted} :
            \E fault \in (movable \ moved) \cup {NoFault} :
              IF fault # NoFault
              THEN cleanup(<<>>, {}, {}, moved, fault, safe)
              ELSE \E busy \in SUBSET {d \in visited : is_version_dir(vd, d)},
                      order \in Orderings(visited) \cup {<<>>},
                      kept \in {{}, visited \cup others} :
                     cleanup(order, busy, kept, moved, fault, safe)

NextCleanup ==
  /\ Len(history) = 0
  /\ CleanupCalls

SpecCleanup == InitCleanup /\ [][NextCleanup]_vars

(* ---------------- claims on cleanup ---------------- *)
\* the cleanup call of the step
Cleaned == Finished /\ Call.op = "cleanup"

\* directory nm is neither deleted nor disabled by the step
Survives(nm) ==
  vd[nm].exists => (vd'[nm].exists /\ vd'[nm].mfile = vd[nm].mfile)

\* C12: cleanup neither deletes nor disables the directory of the active
\* version nor that of the best version, and leaves updates/ in place,
\* whatever appdir holds and also when the active version is not the best.
C12_CleanupProtects ==
  [][Cleaned =>
       /\ active_version # NoVersion => Survives(TargetOf[active_version])
       /\ get_best_version(vd, TRUE) # NoVersion
            => Survives(get_best_version(vd, TRUE))
       /\ "updates" \in others => "updates" \in others']_vars

\* C22: when the uninstall of an obsolete installed version reports
\* VersionLockedError, cleanup does not fail, the directory of that version
\* is left as it was, and the sweep goes on: every other obsolete installed
\* version of the application is disabled or deleted.
C22_LockedVersionSkipped ==
  [][(Cleaned /\ Call.in_use # {})
       => /\ Call.out = "ok"
          /\ \A d \in Call.in_use : vd'[d] = vd[d]
          /\ \A d \in (Visited(vd) \cap OwnDirs) \ Call.in_use :
               ~is_version_dir(vd', d)]_vars

\* 0.9 is in use and stays, the obsolete 1.0 is gone, 1.1 is the best version
C22_Witness_state ==
  /\ Len(history) = 1 /\ LastCall.op = "cleanup" /\ LastCall.out = "ok"
  /\ LastCall.in_use = {TargetOf["0.9"]}
  /\ is_version_dir(vd, TargetOf["0.9"])
  /\ ~vd[TargetOf["1.0"]].exists /\ ~vd[TargetOf["1.0"]].staged
  /\ is_version_dir(vd, TargetOf["1.1"])

\* the entries of appdir that are neither version directories nor backups
\* are in place after the step
EntriesStay == \A nm \in others \cap {"updates", Unaccounted} : nm \in others'

\* the obsolete versions of the application that the sweep uninstalls
Obsolete == {d \in Visited(vd) \cap OwnDirs : is_version_dir(vd, d)}

\* C23 as stated: a cleanup that returns leaves every entry of appdir that
\* is not a version directory and not a backup as it was, the files of
\* the best version's manifest included.
C23_LeavesRestUntouched_original ==
  [][(Cleaned /\ Call.out = "ok")
       => EntriesStay /\ root' = root]_vars

\* C23: a cleanup that returns leaves in place every entry of appdir that
\* is not a version directory and not a backup, except files that only
\* obsolete versions list, which their uninstall removes; every file of the
\* best version's manifest is still there, unchanged unless the completion
\* of that version's partial install has put the version's copy in its
\* place.
C23_LeavesRestUntouched ==
  [][(Cleaned /\ Call.out = "ok")
       => LET best_version == get_best_version(vd, TRUE)
              listed == Range(mlines[best_version])
          IN /\ EntriesStay
             /\ \A nm \in listed :
                  /\ root[nm] # Absent => root'[nm] # Absent
                  /\ root'[nm] # root[nm]
                       => nm \in Call.applied /\ root'[nm] = best_version
             /\ \A nm \in Files \ listed :
                  root'[nm] # root[nm]
                    => /\ root'[nm] = Absent
                       /\ \E d \in Obsolete : nm \in Range(mlines[d])]_vars

\* cleanup returned: the unaccounted entry is there, the file that only the
\* obsolete 0.9 listed is gone, the files of 1.1 are there
C23_Witness_state ==
  /\ Len(history) = 1 /\ LastCall.op = "cleanup" /\ LastCall.out = "ok"
  /\ Unaccounted \in others /\ "app.bin.old" \notin others
  /\ root["boot.exe"] = Absent
  /\ is_version_dir(vd, TargetOf["1.1"])
  /\ \A nm \in Range(mlines[TargetOf["1.1"]]) : root[nm] # Absent

\* every call so far returned normally
AllCompleted == \A i \in DOMAIN history : history[i].out \in {"ok", "absent"}

\* C26: after any sequence of completed install_version and
\* uninstall_version calls, when an installed version remains, every file
\* that the manifest of the best installed version lists is present in the
\* application directory.
C26_BestStaysRunnable ==
  (AllCompleted /\ get_best_version(vd, FALSE) # NoVersion)
    => \A nm \in _version_manifest(vd, get_best_version(vd, FALSE)) :
         root[nm] # Absent

\* a partially installed version newer than the best installed one exists
PartialNewer ==
  /\ get_best_version(vd, TRUE) # NoVersion
  /\ get_best_version(vd, FALSE) # get_best_version(vd, TRUE)

\* C20: when a partially installed version newer than the best installed
\* one exists, cleanup completes it first and protects it for the rest of
\* the sweep: after a cleanup that got past the completion the version is
\* installed, enabled, with every file of its manifest in appdir; when the
\* completion fails no directory is deleted or disabled, no backup is
\* removed and no file outside the aborted merge is touched.
C20_CompletesPartialFirst ==
  [][(Cleaned /\ PartialNewer /\ Call.out # "EskyLockedError")
       => LET new_version == get_best_version(vd, TRUE)
          IN IF Call.out = "MoveError"
             THEN /\ \A d \in Vdirs : Survives(d)
                  /\ others' = others
                  /\ \A nm \in Files \ Call.applied : root'[nm] = root[nm]
             ELSE /\ vd'[new_version].exists /\ ~vd'[new_version].bsdir
                  /\ vd'[new_version].mfile = "txt"
                  /\ \A nm \in Range(mlines[new_version]) :
                       root'[nm] # Absent]_vars

\* 1.1 was completed, then the obsolete 1.0 and the backup file were removed
C20_Witness_state ==
  /\ Len(history) = 1 /\ LastCall.op = "cleanup" /\ LastCall.out = "ok"
  /\ LastCall.v = "1.1" /\ LastCall.applied # {}
  /\ vd[TargetOf["1.1"]].exists /\ ~vd[TargetOf["1.1"]].bsdir
  /\ ~vd[TargetOf["1.0"]].exists /\ vd[TargetOf["1.0"]].staged = FALSE
  /\ others = {"updates"}
  /\ active_version = "0.9" /\ vd[TargetOf["0.9"]].exists

(* ================= reading a manifest ================= *)
\* path components; "" before the first "/" makes a path absolute
Segs == {"", "..", ".", "lib"}

RECURSIVE SeqsUpTo(_, _)
SeqsUpTo(S, n) ==
  IF n = 0 THEN {<<>>}
  ELSE LET shorter == SeqsUpTo(S, n - 1)
       IN shorter \cup {Append(q, x) : q \in {r \in shorter : Len(r) = n - 1},
                                       x \in S}

\* the lines a manifest file may hold, stripped; <<>> is a blank line
RawPaths == SeqsUpTo(Segs, MaxSegs)

\* os.path.isabs
isabs(path) == path # <<>> /\ path[1] = ""

\* os.path.normpath: drops empty and "." components and folds "x/..";
\* ".." above the root of an absolute path is dropped, and a path that
\* folds to nothing becomes "."
RECURSIVE fold(_, _, _)
fold(path, stack, absolute) ==
  IF path = <<>> THEN stack
  ELSE LET c == Head(path)
       IN IF c \in {"", "."} THEN fold(Tail(path), stack, absolute)
          ELSE IF c = ".."
          THEN IF stack # <<>> /\ stack[Len(stack)] # ".."
               THEN fold(Tail(path), SubSeq(stack, 1, Len(stack) - 1),
                         absolute)
               ELSE IF absolute THEN fold(Tail(path), stack, absolute)
               ELSE fold(Tail(path), Append(stack, c), absolute)
          ELSE fold(Tail(path), Append(stack, c), absolute)

normpath(path) ==
  LET stack == fold(path, <<>>, isabs(path))
  IN IF isabs(path) THEN <<"">> \o stack
     ELSE IF stack = <<>> THEN <<".">> ELSE stack

\* nm.startswith("..")
startswith_dotdot(nm) == nm[1] = ".."

\* lines 713-719 of Esky._version_manifest: the loop over the lines
RECURSIVE read_lines(_, _)
read_lines(lines, manifest) ==
  IF lines = <<>> THEN [out |-> "ok", manifest |-> manifest]
  ELSE LET nm == normpath(Head(lines))
       IN IF isabs(nm) \/ startswith_dotdot(nm)
          THEN [out |-> "AssertionError", manifest |-> {}]
          ELSE read_lines(Tail(lines), manifest \cup {nm})

\* Esky._version_manifest on the file mf_lines
load_manifest ==
  /\ mf_loaded = NotLoaded
  /\ mf_loaded' = read_lines(mf_lines, {})
  /\ UNCHANGED <<lockVars, installVars, active_version, others, mf_lines,
                 updVars>>

InitManifest ==
  /\ InitLock /\ ~dirExists
  /\ win32 = FALSE /\ InitDir
  /\ active_version = "0.9" /\ others = {"updates"}
  /\ mf_lines \in SeqsUpTo(RawPaths, MaxLines)
  /\ mf_loaded = NotLoaded
  /\ InitUpdate /\ is_root = FALSE

NextManifest == load_manifest

SpecManifest == InitManifest /\ [][NextManifest]_vars

\* where a path leads from appdir, followed component by component: the
\* depth below appdir, -1 once it has left appdir
RECURSIVE Descend(_, _)
Descend(path, depth) ==
  IF path = <<>> \/ depth < 0 THEN depth
  ELSE IF Head(path) \in {"", "."} THEN Descend(Tail(path), depth)
  ELSE IF Head(path) = ".." THEN Descend(Tail(path), depth - 1)
  ELSE Descend(Tail(path), depth + 1)

\* the path names something strictly inside appdir
StrictlyInside(path) == ~isabs(path) /\ Descend(path, 0) > 0

\* C18: a manifest with an absolute path or a parent-directory escape does
\* not load, and every path of a manifest that loads is relative and leads
\* strictly inside appdir.
C18_ManifestPathsInside ==
  /\ (mf_loaded # NotLoaded
        /\ \E i \in DOMAIN mf_lines :
             isabs(mf_lines[i]) \/ Descend(mf_lines[i], 0) < 0)
       => mf_loaded.out = "AssertionError"
  /\ mf_loaded.out = "ok" => \A nm \in mf_loaded.manifest : StrictlyInside(nm)

(* ================= validation of the version argument ================= *)
\* version arguments a caller may pass, and their components between "/"
VersionArgs ==
  {"1.0", "1.1", "1.0/../x", "x/../../../etc", "/etc", "1.0/"}

ArgSegs(version) ==
  CASE version = "1.0/../x" -> <<"1.0", "..", "x">>
    [] version = "x/../../../etc" -> <<"x", "..", "..", "..", "etc">>
    [] version = "/etc" -> <<"", "etc">>
    [] version = "1.0/" -> <<"1.0", "">>
    [] OTHER -> <<version>>

\* the components of join_app_version(self.name, version, self.platform)
\* below appdir: the name is glued to the first and the platform to the last
target_segs(version) ==
  LET segs == ArgSegs(version)
      n == Len(segs)
  IN IF n = 1 THEN <<join_app_version(name, segs[1], platform)>>
     ELSE <<name \o "-" \o segs[1]>> \o SubSeq(segs, 2, n - 1)
            \o <<segs[n] \o "." \o platform>>

\* os.path.dirname of the target, relative to appdir: everything before the
\* last "/", without trailing slashes
RECURSIVE rstrip_slashes(_)
rstrip_slashes(path) ==
  IF path # <<>> /\ path[Len(path)] = ""
  THEN rstrip_slashes(SubSeq(path, 1, Len(path) - 1))
  ELSE path

dirname(path) == rstrip_slashes(SubSeq(path, 1, Len(path) - 1))

\* a validation that lets every target through
dirname_is_appdir_unchecked(version) == TRUE

\* assert os.path.dirname(target) == self.appdir, lines 560, 582 and 634
dirname_is_appdir(version) == dirname(target_segs(version)) = <<>>

\* the body runs on a target outside the modelled version directories
Elsewhere(op, version) ==
  /\ Log(op, version, "elsewhere", {}, {})
  /\ UNCHANGED <<win32, vd, mlines, root, lockVars, extraVars>>

Rejected(op, version) ==
  /\ Log(op, version, "AssertionError", {}, {})
  /\ UNCHANGED <<win32, vd, mlines, root, lockVars, extraVars>>

\* Esky.fetch_version, lines 552-568, with a version finder that has the
\* version: the payload is unpacked under updates/; no lock is taken
fetch_version(version) ==
  /\ Len(history) < MaxCalls
  /\ IF ~dirname_is_appdir(version) THEN Rejected("fetch", version)
     ELSE IF version \notin VersionStrings THEN Elsewhere("fetch", version)
     ELSE /\ vd' = [vd EXCEPT ![TargetOf[version]].staged = TRUE]
          /\ Log("fetch", version, "ok", {}, {})
          /\ UNCHANGED <<win32, mlines, root, lockVars, extraVars>>

\* install_version called with any version argument, lines 578-582
install_version_checked(version, moved, fault, safe) ==
  /\ Len(history) < MaxCalls
  /\ IF ~dirname_is_appdir(version)
     THEN /\ moved = {} /\ fault = NoFault /\ safe = {}
          /\ Rejected("install", version)
     ELSE IF version \notin VersionStrings
     THEN /\ moved = {} /\ fault = NoFault /\ safe = {}
          /\ Elsewhere("install", version)
     ELSE install_version(version, moved, fault, safe)

\* uninstall_version called with any version argument, lines 631-634
uninstall_version_checked(version, removed, fault, busy) ==
  /\ Len(history) < MaxCalls
  /\ IF ~dirname_is_appdir(version)
     THEN /\ removed = {} /\ fault = NoFault /\ ~busy
          /\ Rejected("uninstall", version)
     ELSE IF version \notin VersionStrings
     THEN /\ removed = {} /\ fault = NoFault /\ ~busy
          /\ Elsewhere("uninstall", version)
     ELSE uninstall_version(version, removed, fault, busy)

\* the inputs of the calls, for arguments that are versions
MovableArg(version) ==
  IF version \in VersionStrings THEN Movable(version) ELSE {}

RecordedArg(version) ==
  IF version \in VersionStrings THEN _cleanup_bootstrap_env(vd, root, version)
                                ELSE {}

NextValidate ==
  \/ \E version \in VersionArgs : fetch_version(version)
  \/ \E version \in VersionArgs :
       \E moved \in SUBSET MovableArg(version), safe \in SUBSET Consulted :
         \E fault \in (MovableArg(version) \ moved) \cup {NoFault} :
           install_version_checked(version, moved, fault, safe)
  \/ \E version \in VersionArgs :
       \E removed \in SUBSET RecordedArg(version) :
         \E fault \in (RecordedArg(version) \ removed) \cup {NoFault},
            busy \in BOOLEAN :
           uninstall_version_checked(version, removed, fault, busy)

SpecValidate == InitInstall /\ [][NextValidate]_vars

\* the target names a direct child of appdir: following its components
\* from appdir ends one level below, without leaving appdir on the way
DirectChild(version) ==
  /\ ~isabs(target_segs(version))
  /\ Descend(target_segs(version), 0) = 1
  /\ Len(normpath(target_segs(version))) = 1

\* C17: fetch_version, install_version and uninstall_version called with a
\* version whose target is not a direct child of appdir fail on the
\* assertion and leave the directory and the lock as they were.
C17_TargetValidated ==
  [][(Finished /\ Call.op \in {"fetch", "install", "uninstall"}
        /\ ~DirectChild(Call.v))
       => /\ Call.out = "AssertionError"
          /\ UNCHANGED <<vd, root, lockVars>>]_vars

C17_Witness_state ==
  /\ Len(history) = 2
  /\ history[1].v = "x/../../../etc" /\ history[1].out = "AssertionError"
  /\ history[1].op = "install"
  /\ history[2].v = "1.0" /\ history[2].op = "install"
  /\ history[2].out = "ok"

(* ================= auto_update ================= *)
\* the methods decorated with allow_from_sudo, lines 321, 341, 552, 570, 629
Decorated ==
  {"has_root", "cleanup", "fetch_version", "install_version",
   "uninstall_version"}

\* where a call of self.<op> runs: a decorated method is forwarded to the
\* helper while self.sudo_proxy is set
RunsBy(op) == IF sudo_proxy /\ op \in Decorated THEN "helper" ELSE "local"

Entry(op, out) == [op |-> op, by |-> RunsBy(op), out |-> out]

\* a has_root that never reports root privileges
has_root_denied == FALSE

\* self.has_root(), lines 321-324: the helper's answer once it is forwarded
has_root == IF sudo_proxy THEN got_root ELSE is_root

\* a sequence that goes from fetch straight to uninstall
NextStep_skips_install(op) == "uninstall_version"

\* the order of the calls in _do_auto_update, lines 528-531
NextStep(op) ==
  IF op = "fetch_version" THEN "install_version" ELSE "uninstall_version"

\* line 500: the retry calls _do_auto_update again
RetryFrom(op) == "fetch_version"

RestSame == UNCHANGED <<lockVars, installVars, active_version, others,
                        mf_lines, mf_loaded, is_root>>

\* the exception leaves auto_update, or it returns; lines 517-520
End(out, granted, proxy) ==
  /\ upc' = "done" /\ uout' = out /\ step' = "none"
  /\ got_root' = granted
  /\ sudo_proxy' = IF granted THEN FALSE ELSE proxy

Ran(op, out) == trace' = Append(trace, Entry(op, out))

\* lines 480-483
au_start ==
  /\ upc = "idle"
  /\ upc' = "find"
  /\ UNCHANGED <<step, trace, sudo_proxy, got_root, uout>>
  /\ RestSame

\* line 484: self.find_update()
au_find(out) ==
  /\ upc = "find"
  /\ Ran("find_update", out)
  /\ CASE out = "found" ->
            /\ upc' = "update1" /\ step' = "fetch_version"
            /\ UNCHANGED <<sudo_proxy, got_root, uout>>
       [] out = "none" ->
            /\ upc' = "cleanup1"
            /\ UNCHANGED <<step, sudo_proxy, got_root, uout>>
       [] OTHER -> End(out, got_root, sudo_proxy)
  /\ RestSame

\* one call of _do_auto_update, lines 528-533, inside the try of line 488
\* (update1) or after the escalation, line 500 (update2)
au_do(out) ==
  /\ upc \in {"update1", "update2"}
  /\ out = "VersionLockedError" => step = "uninstall_version"
  /\ Ran(step, out)
  /\ IF out \in {"ok", "VersionLockedError"}
     THEN /\ IF step = "uninstall_version"
             THEN upc' = "reinit" /\ step' = "none"
             ELSE upc' = upc /\ step' = NextStep(step)
          /\ UNCHANGED <<sudo_proxy, got_root, uout>>
     ELSE IF out = "EACCES" /\ upc = "update1" /\ ~has_root
     THEN \* lines 490-495
          /\ upc' = "escalate1"
          /\ UNCHANGED <<step, sudo_proxy, got_root, uout>>
     ELSE End(out, got_root, sudo_proxy)
  /\ RestSame

\* self.get_root(), lines 326-333, called at line 495 or 511
au_get_root(out) ==
  /\ upc \in {"escalate1", "escalatec"}
  /\ Ran("get_root", out)
  /\ IF out = "root"
     THEN /\ sudo_proxy' = TRUE /\ got_root' = TRUE
          /\ IF upc = "escalate1"
             THEN upc' = "update2" /\ step' = RetryFrom(step)
             ELSE upc' = "cleanup2" /\ step' = step
          /\ UNCHANGED uout
     ELSE \* lines 496-497 and 512-513: the first exception is raised again
          End("EACCES", got_root, TRUE)
  /\ RestSame

\* line 501: self.reinitialize()
au_reinit(out) ==
  /\ upc = "reinit"
  /\ Ran("reinitialize", out)
  /\ IF out = "ok"
     THEN upc' = "cleanup1" /\ UNCHANGED <<step, sudo_proxy, got_root, uout>>
     ELSE End(out, got_root, sudo_proxy)
  /\ RestSame

\* self.cleanup() at line 505 (cleanup1) or 516 (cleanup2)
au_cleanup(out) ==
  /\ upc \in {"cleanup1", "cleanup2"}
  /\ Ran("cleanup", out)
  /\ IF out = "EACCES" /\ upc = "cleanup1" /\ ~has_root
     THEN /\ upc' = "escalatec"
          /\ UNCHANGED <<step, sudo_proxy, got_root, uout>>
     ELSE End(out, got_root, sudo_proxy)
  /\ RestSame

InitAutoUpdate ==
  /\ InitLock /\ ~dirExists
  /\ win32 = FALSE /\ InitDir
  /\ active_version = "0.9" /\ others = {"updates"}
  /\ mf_lines = <<>> /\ mf_loaded = NotLoaded
  /\ InitUpdate /\ is_root \in BOOLEAN

NextAutoUpdate ==
  \/ au_start
  \/ \E out \in {"found", "none", "URLError"} : au_find(out)
  \/ \E out \in {"ok", "EACCES", "ENOSPC", "EskyLockedError",
                 "VersionLockedError"} : au_do(out)
  \/ \E out \in {"root", "OSError"} : au_get_root(out)
  \/ \E out \in {"ok", "EskyBrokenError"} : au_reinit(out)
  \/ \E out \in {"ok", "EACCES", "ENOSPC", "EskyLockedError"} : au_cleanup(out)

SpecAutoUpdate == InitAutoUpdate /\ [][NextAutoUpdate]_vars

(* ---------------- claims on auto_update ---------------- *)
Failed(e) == e.out \notin {"ok", "VersionLockedError", "found", "none", "root"}

UpdateOps == {"fetch_version", "install_version", "uninstall_version"}

\* the positions of the escalations in the trace
Escalations == {i \in DOMAIN trace : trace[i].op = "get_root"}

\* an EACCES failure of an unprivileged first attempt is answered by
\* get_root, and get_root is called for nothing else and only once
EscalatesOnce ==
  /\ Cardinality(Escalations) <= 1
  /\ \A i \in Escalations :
       /\ i > 1 /\ trace[i - 1].out = "EACCES" /\ trace[i - 1].by = "local"
       /\ ~is_root
  /\ \A i \in DOMAIN trace :
       (/\ trace[i].out = "EACCES" /\ ~is_root
        /\ trace[i].op \in UpdateOps \cup {"cleanup"}
        /\ \A j \in Escalations : j > i)
         => IF i = Len(trace) THEN upc \in {"escalate1", "escalatec"}
                              ELSE trace[i + 1].op = "get_root"

\* after the escalation, the first failure ends auto_update with that error
SecondFailureSurfaces ==
  \A i \in Escalations, j \in DOMAIN trace :
    (j >= i /\ Failed(trace[j]))
      => /\ j = Len(trace) /\ upc = "done"
         /\ uout = IF j = i THEN "EACCES" ELSE trace[j].out

\* the call after a granted escalation repeats the call that failed
RetriesFailedStep ==
  \A i \in Escalations :
    (trace[i].out = "root" /\ i < Len(trace))
      => trace[i + 1].op = trace[i - 1].op

\* the call after a granted escalation starts the failed phase again: the
\* fetch, install, uninstall sequence from fetch, or cleanup
RetriesFailedPhase ==
  \A i \in Escalations :
    (trace[i].out = "root" /\ i < Len(trace))
      => trace[i + 1].op = IF trace[i - 1].op = "cleanup" THEN "cleanup"
                                                         ELSE "fetch_version"

\* C14 as stated: after an EACCES failure without privileges auto_update
\* escalates once and retries exactly the step that failed; a failure after
\* the escalation is surfaced without another retry or escalation.
C14_RetriesExactStep_original ==
  EscalatesOnce /\ SecondFailureSurfaces /\ RetriesFailedStep

\* C14: after an EACCES failure without privileges auto_update escalates
\* once and runs the failed phase again from its first step; a failure
\* after the escalation is surfaced without another retry or escalation.
C14_RetriesPhaseOnce ==
  EscalatesOnce /\ SecondFailureSurfaces /\ RetriesFailedPhase

\* install failed with EACCES, the sequence was run again by the helper and
\* auto_update returned
C14_Witness_state ==
  /\ upc = "done" /\ uout = "ok" /\ Len(trace) >= 6
  /\ trace[3].op = "install_version" /\ trace[3].out = "EACCES"
  /\ trace[4].op = "get_root" /\ trace[4].out = "root"
  /\ trace[5].op = "fetch_version" /\ trace[5].by = "helper"
  /\ trace[6].op = "install_version" /\ trace[6].out = "ok"

\* C15: find comes first; install directly follows a fetch that returned,
\* uninstall an install that returned, reinitialize the uninstall attempt;
\* nothing but the escalation and cleanup itself follows cleanup; without an
\* update only cleanup runs.
C15_FixedOrder ==
  \A i \in DOMAIN trace :
    /\ trace[i].op = "find_update" <=> i = 1
    /\ trace[i].op = "install_version"
         => trace[i - 1].op = "fetch_version" /\ trace[i - 1].out = "ok"
    /\ trace[i].op = "uninstall_version"
         => trace[i - 1].op = "install_version" /\ trace[i - 1].out = "ok"
    /\ trace[i].op = "reinitialize"
         => /\ trace[i - 1].op = "uninstall_version"
            /\ trace[i - 1].out \in {"ok", "VersionLockedError"}
    /\ trace[i].op = "cleanup"
         => \A j \in DOMAIN trace :
              j > i => trace[j].op \in {"cleanup", "get_root"}
    /\ trace[1].out = "none"
         => (i > 1 => trace[i].op \in {"cleanup", "get_root"})

C15_Witness_state ==
  /\ upc = "done" /\ uout = "ok"
  /\ [i \in DOMAIN trace |-> trace[i].op] =
       <<"find_update", "fetch_version", "install_version",
         "uninstall_version", "reinitialize", "cleanup">>

\* C16: while the helper is there, exactly fetch, install, uninstall and
\* has-privilege are forwarded to it; cleanup, reinitialize and find_update
\* run in the calling process.
C16_OnlyWhitelistForwarded ==
  \A i \in DOMAIN trace :
    /\ trace[i].by = "helper"
         => trace[i].op \in {"fetch_version", "install_version",
                             "uninstall_version", "has_root"}
    /\ (trace[i].op \in UpdateOps /\ \E j \in Escalations :
                                       j < i /\ trace[j].out = "root")
         => trace[i].by = "helper"

\* C25: auto_update leaves no helper behind: when it has returned or raised,
\* on every path, the failed escalation and the failed retry included,
\* sudo_proxy is None again.
C25_NoHelperLeftBehind == upc = "done" => ~sudo_proxy

(* ================= lock and unlock around the calls ================= *)
\* what lock() can find when install_version, uninstall_version or cleanup
\* is entered: no locked/ directory; a marker left by a crashed owner, fresh
\* or stale; the caller's own lock, taken once or twice; the caller's
\* counter at 1 after its lock was broken and released by another owner; the
\* caller's counter at -1 after an unlock() without lock()
HoldStates ==
  {"free", "orphan fresh", "orphan stale", "own", "own twice", "broken",
   "over-released"}

InitHold(h) ==
  /\ now = IF h \in {"free", "orphan fresh"} THEN 0 ELSE lock_timeout + 1
  /\ ticks = 0 /\ crashes = 0
  /\ dirExists = (h \in {"orphan fresh", "orphan stale", "own", "own twice"})
  /\ dirMtime = IF h \in {"own", "own twice"} THEN lock_timeout + 1 ELSE 0
  /\ markers = [o \in Ids |->
                  IF o = Orphan /\ h \in {"orphan fresh", "orphan stale"}
                  THEN 0
                  ELSE IF o = Caller /\ h \in {"own", "own twice"}
                  THEN lock_timeout + 1
                  ELSE NoFile]
  /\ pc = [o \in Owners |-> "idle"]
  /\ num_retries = [o \in Owners |-> 0]
  /\ lock_count = [o \in Owners |->
                     IF o # Caller THEN 0
                     ELSE CASE h \in {"own", "broken"} -> 1
                            [] h = "own twice" -> 2
                            [] h = "over-released" -> -1
                            [] OTHER -> 0]
  /\ newest_mtime = [o \in Owners |-> 0]
  /\ names = [o \in Owners |-> {}]
  /\ result = [o \in Owners |-> "none"]
  /\ held = [o \in Owners |-> 0]
  /\ expired = [o \in Owners |-> FALSE]
  /\ ctx = [o \in Owners |-> "none"]
  /\ broke = "no"
  /\ overReleased = [o \in Owners |-> h = "over-released"]

InitPairing ==
  /\ \E h \in HoldStates : InitHold(h)
  /\ win32 \in BOOLEAN
  /\ InitDir
  /\ InitExtra

NextPairing ==
  /\ Len(history) < MaxPairCalls
  /\ \/ NextInstall
     \/ CleanupCalls

SpecPairing == InitPairing /\ [][NextPairing]_vars

\* C24: install_version, uninstall_version and cleanup release what they
\* acquire on every exit path: the caller's reentrant counter is the same
\* after the call as before it, and a call entered without a locked/
\* directory leaves none behind.
C24_ReleasesWhatItAcquires ==
  [][Finished => /\ lock_count'[Caller] = lock_count[Caller]
                 /\ ~dirExists => ~dirExists']_vars

====
